---- MODULE Spec2Model ----
(***************************************************************************)
(* Model of Main.py: the request-construction pipeline                     *)
(* (process_path_variables, prepare_request_args), the single-request      *)
(* operation send_request, the four diagnostic checks and the two runners. *)
(*                                                                         *)
(* A text is a sequence of atoms.  An atom is one character ("{", "}",     *)
(* ":", " ", "a", ...) or an indivisible run of non-whitespace characters  *)
(* written as one atom ("Content-Type", "text/plain").  None is <<>> and a *)
(* present optional value x is <<x>>.  A Python dict is a function whose   *)
(* domain is its key set.                                                  *)
(***************************************************************************)
EXTENDS Integers, Sequences, FiniteSets, TLC

VARIABLES
    args,    \* the arguments of the running operation
    pc,      \* its control position
    ret,     \* what it returned (<<>> until then)
    queue,   \* the checks a runner has still to call, in call order
    check,   \* the check whose body is executing ("none" outside one)
    loc,     \* the locals of that body: the materialized request, counters
    calls,   \* every HTTP call issued so far, oldest first
    fh,      \* the file object opened by the last materialization
    lines    \* the verdict lines the finished checks returned

vars == <<args, pc, ret, queue, check, loc, calls, fh, lines>>

----------------------------------------------------------------------------
(* Bounds of the model *)

MaxUrlLen == 5
MaxRows == 2
MaxIterations == 3

----------------------------------------------------------------------------
(* Text helpers *)

None == <<>>
Some(x) == <<x>>

WordChars == {"a", "b"}

InSeq(x, s) == \E i \in 1..Len(s) : s[i] = x

StartsWith(s, i, p) ==
    /\ i + Len(p) - 1 <= Len(s)
    /\ \A j \in 1..Len(p) : s[i + j - 1] = p[j]

safe_convert(value) == value

RECURSIVE strip(_)
strip(s) ==
    IF s = <<>> THEN s
    ELSE IF Head(s) = " " THEN strip(Tail(s))
    ELSE IF s[Len(s)] = " " THEN strip(SubSeq(s, 1, Len(s) - 1))
    ELSE s

Truthy(s) == s # <<>>

----------------------------------------------------------------------------
(* process_path_variables *)

RECURSIVE WordRun(_, _)
WordRun(s, i) ==
    IF i <= Len(s) /\ s[i] \in WordChars THEN 1 + WordRun(s, i + 1) ELSE 0

(* re.findall(r'\{(\w+)\}|:(\w+)', url): leftmost matches, the brace form   *)
(* tried first, \w+ greedy; each match with the syntax it was written in.  *)
RECURSIVE Scan(_, _)
Scan(s, i) ==
    IF i > Len(s) THEN <<>>
    ELSE LET n == WordRun(s, i + 1) IN
         IF s[i] = "{" /\ n >= 1 /\ i + n + 1 <= Len(s) /\ s[i + n + 1] = "}"
         THEN <<[name |-> SubSeq(s, i + 1, i + n), at |-> i,
                 text |-> SubSeq(s, i, i + n + 1)]>> \o Scan(s, i + n + 2)
         ELSE IF s[i] = ":" /\ n >= 1
         THEN <<[name |-> SubSeq(s, i + 1, i + n), at |-> i,
                 text |-> SubSeq(s, i, i + n)]>> \o Scan(s, i + n + 1)
         ELSE Scan(s, i + 1)

FindAll(url) ==
    LET found == Scan(url, 1) IN [i \in 1..Len(found) |-> found[i].name]

(* The replacement of re.sub is a template.  Two of its escapes are        *)
(* modelled, each as one atom: \g<0> stands for the text of the whole      *)
(* match, and \1 refers to a group the pattern does not have, at which     *)
(* re.sub raises re.error before it substitutes anything.                  *)
WholeMatch == "\\g<0>"
NoSuchGroup == "\\1"

RECURSIVE Expand(_, _)
Expand(val, m) ==
    IF val = <<>> THEN <<>>
    ELSE (IF Head(val) = WholeMatch THEN m ELSE <<Head(val)>>)
         \o Expand(Tail(val), m)

ValidTemplate(val) == ~InSeq(NoSuchGroup, val)

(* re.sub(rf'\{{{key}\}}|:{key}', val, url): every non-overlapping match,  *)
(* left to right, of the literal "{key}" or of the literal ":key", is      *)
(* replaced by the expansion of the template val.                          *)
RECURSIVE ReSub(_, _, _, _)
ReSub(key, val, s, i) ==
    IF i > Len(s) THEN <<>>
    ELSE IF StartsWith(s, i, <<"{">> \o key \o <<"}">>)
    THEN Expand(val, <<"{">> \o key \o <<"}">>)
         \o ReSub(key, val, s, i + Len(key) + 2)
    ELSE IF StartsWith(s, i, <<":">> \o key)
    THEN Expand(val, <<":">> \o key) \o ReSub(key, val, s, i + Len(key) + 1)
    ELSE <<s[i]>> \o ReSub(key, val, s, i + 1)

(* for key, val in path_params.items(): url = re.sub(...); the loop ends   *)
(* at the first re.sub that raises.                                        *)
RECURSIVE SubstituteAll(_, _, _)
SubstituteAll(keys, vals, url) ==
    IF keys = <<>> THEN [raised |-> "none", url |-> url]
    ELSE IF ~ValidTemplate(vals[Head(keys)])
    THEN [raised |-> "re.error", url |-> url]
    ELSE SubstituteAll(Tail(keys), vals,
                       ReSub(Head(keys), vals[Head(keys)], url, 1))

DictSet(d, k, v) == [x \in DOMAIN d \cup {k} |-> IF x = k THEN v ELSE d[x]]

(* the loop over the parameter rows; keys is the insertion order of        *)
(* path_params, vals its mapping.                                          *)
RECURSIVE ScanRows(_, _, _, _, _)
ScanRows(rows, variables, keys, vals, new_params) ==
    IF rows = <<>>
    THEN [keys |-> keys, vals |-> vals, new_params |-> new_params]
    ELSE LET key == strip(safe_convert(Head(rows)[1]))
             value == strip(safe_convert(Head(rows)[2]))
         IN IF Truthy(Head(rows)[1]) /\ Truthy(Head(rows)[2])
            THEN IF InSeq(key, variables)
                 THEN ScanRows(Tail(rows), variables,
                               IF InSeq(key, keys) THEN keys ELSE Append(keys, key),
                               DictSet(vals, key, value), new_params)
                 ELSE ScanRows(Tail(rows), variables, keys, vals,
                               Append(new_params, <<key, value>>))
            ELSE ScanRows(Tail(rows), variables, keys, vals, new_params)

(* When raised is not "none" the call returned nothing: url and           *)
(* new_params are then the locals at the raise.                            *)
process_path_variables(url, params) ==
    LET variables == FindAll(url)
        s == ScanRows(params, variables, <<>>, <<>>, <<>>)
        sub == SubstituteAll(s.keys, s.vals, url)
    IN [raised |-> sub.raised, url |-> sub.url, new_params |-> s.new_params]

----------------------------------------------------------------------------
(* prepare_request_args *)

upper(m) ==
    CASE m = "post" -> "POST"
      [] m = "put" -> "PUT"
      [] m = "patch" -> "PATCH"
      [] m = "get" -> "GET"
      [] OTHER -> m

(* method.upper() in ["POST", "PUT", "PATCH"] *)
HasBody(method) == upper(method) \in {"POST", "PUT", "PATCH"}

UseJsonUnstripped(body_type, json_body) ==
    body_type = "JSON" /\ Truthy(json_body)

(* body_type == "JSON" and json_body and json_body.strip() *)
UseJson(body_type, json_body) ==
    body_type = "JSON" /\ Truthy(json_body) /\ Truthy(strip(json_body))

(* The atoms that are, each as a whole, one JSON value. *)
JsonValueAtoms == {"{\"a\":1}", "1", "null"}

(* json.loads: optional whitespace, one JSON value, optional whitespace;   *)
(* anything else raises JSONDecodeError.                                   *)
json_loads(text) ==
    LET t == strip(text) IN
    IF Len(t) = 1 /\ t[1] \in JsonValueAtoms
    THEN [ok |-> TRUE, value |-> t[1]]
    ELSE [ok |-> FALSE, value |-> "JSONDecodeError"]

(* {k: v for k, v in rows if k and v}: later duplicates overwrite. *)
RECURSIVE DictOf(_)
DictOf(rows) ==
    IF rows = <<>> THEN <<>>
    ELSE LET r == rows[Len(rows)]
             d == DictOf(SubSeq(rows, 1, Len(rows) - 1))
         IN IF Truthy(r[1]) /\ Truthy(r[2]) THEN DictSet(d, r[1], r[2]) ELSE d

(* for active, k, v in headers: if active and k and v:                     *)
(*     headers_dict[k.strip()] = v.strip()                                 *)
RECURSIVE HeadersDict(_)
HeadersDict(headers) ==
    IF headers = <<>> THEN <<>>
    ELSE LET r == headers[Len(headers)]
             d == HeadersDict(SubSeq(headers, 1, Len(headers) - 1))
         IN IF r[1] /\ Truthy(r[2]) /\ Truthy(r[3])
            THEN DictSet(d, strip(safe_convert(r[2])), strip(safe_convert(r[3])))
            ELSE d

setdefault(d, k, v) == IF k \in DOMAIN d THEN d ELSE DictSet(d, k, v)

ContentType == <<"Content-Type">>
ApplicationJson == <<"application/json">>
FormUrlencoded == <<"application/x-www-form-urlencoded">>

(* uploaded_file and file_key and file_key.strip() *)
AttachFile(file_key, uploaded_file) ==
    uploaded_file # None /\ Truthy(file_key) /\ Truthy(strip(file_key))

(* os.path.basename of a path written as its components *)
basename(path) == path[Len(path)]

prepare_request_args(method, url, params, headers, body_type, json_body, form_params, file_key, uploaded_file) ==
    LET r == process_path_variables(url, params)
        params_dict == DictOf(r.new_params)
        headers_dict == HeadersDict(headers)
        base == [raised |-> "none", resolved_url |-> r.url,
                 params_dict |-> params_dict, headers_dict |-> headers_dict,
                 json_data |-> None, data |-> None, files |-> None]
    IN IF r.raised # "none" THEN [base EXCEPT !.raised = r.raised]
       ELSE IF ~HasBody(method) THEN base
       ELSE IF UseJson(body_type, json_body)
       THEN IF json_loads(json_body).ok
            THEN [base EXCEPT !.json_data = Some(json_loads(json_body).value),
                              !.headers_dict =
                                  setdefault(headers_dict, ContentType, ApplicationJson)]
            ELSE [base EXCEPT !.raised = "JSONDecodeError"]
       ELSE IF AttachFile(file_key, uploaded_file)
       THEN IF uploaded_file[1].readable
            THEN [base EXCEPT !.data = Some(DictOf(form_params)),
                              !.files = Some([key |-> strip(file_key),
                                              fname |-> basename(uploaded_file[1].name)])]
            ELSE [base EXCEPT !.raised = "OSError",
                              !.data = Some(DictOf(form_params))]
       ELSE [base EXCEPT !.data = Some(DictOf(form_params)),
                         !.headers_dict =
                             setdefault(headers_dict, ContentType, FormUrlencoded)]

----------------------------------------------------------------------------
(* Inputs *)

UrlChars == {"{", "}", ":"} \cup WordChars
UrlTemplates == UNION {[1..n -> UrlChars] : n \in 0..MaxUrlLen}

ParamRows ==
    { <<<<"a">>, <<"b">>>>,
      <<<<"b">>, <<"a">>>>,
      <<<<"a">>, <<":", "b">>>>,
      <<<<"a">>, <<WholeMatch>>>> }
ParamTables == UNION {[1..n -> ParamRows] : n \in 0..MaxRows}

Methods == {"GET", "POST", "put"}
PrepUrl == <<"/", "{", "a", "}">>
PrepParamRows ==
    { <<<<"q">>, <<"v">>>>,
      <<<<" ">>, <<"v">>>>,
      <<<<"q">>, <<" ">>>>,
      <<<<" ", "a">>, <<" ">>>>,
      <<<<"a">>, <<"v", " ">>>>,
      <<<<"a">>, <<NoSuchGroup>>>> }
PrepParamTables == UNION {[1..n -> PrepParamRows] : n \in 0..MaxRows}

HCaller == <<TRUE, <<"Content-Type">>, <<"text/plain">>>>
HLower == <<TRUE, <<"content-type">>, <<"text/plain">>>>
HDisabled == <<FALSE, <<"Content-Type">>, <<"text/plain">>>>
HBlankKey == <<TRUE, <<" ">>, <<"x">>>>
HBlankValue == <<TRUE, <<"X-Id">>, <<" ">>>>
HPadded == <<TRUE, <<" ", "Content-Type", " ">>, <<" ", "text/plain">>>>
HAuth == <<TRUE, <<"Authorization">>, <<"token">>>>
HAuthLower == <<TRUE, <<"authorization">>, <<"token">>>>
HeaderTables ==
    { <<>>, <<HCaller>>, <<HLower>>, <<HDisabled>>, <<HBlankKey>>,
      <<HBlankValue>>, <<HPadded>>, <<HAuth, HCaller>>, <<HCaller, HBlankValue>> }

BodyTypes == {"JSON", "Form Data"}
JsonTexts == { <<>>, <<" ">>, <<" ", "{\"a\":1}">>, <<"not", " ", "json">> }
FormTables == { <<>>, <<<<<<"f">>, <<"1">>>>, <<<<"g">>, <<>>>>>> }
FileKeys == { <<>>, <<" ">>, <<" ", "file">> }
FileContent == <<"x", "y">>
UploadedFiles ==
    { None,
      Some([name |-> <<"tmp", "up.bin">>, content |-> FileContent, readable |-> TRUE]),
      Some([name |-> <<"tmp", "up.bin">>, content |-> FileContent, readable |-> FALSE]) }

NoFile == [open |-> FALSE, content |-> <<>>, pos |-> 0]

Idle ==
    /\ queue = <<>>
    /\ check = "none"
    /\ loc = <<>>
    /\ calls = <<>>
    /\ fh = NoFile
    /\ lines = <<>>

----------------------------------------------------------------------------
(* The resolver applied to every template and table within the bounds *)

InitResolve ==
    /\ args \in [url : UrlTemplates, params : ParamTables]
    /\ pc = "call"
    /\ ret = <<>>
    /\ Idle

Resolve ==
    /\ pc = "call"
    /\ ret' = process_path_variables(args.url, args.params)
    /\ pc' = "done"
    /\ UNCHANGED <<args, queue, check, loc, calls, fh, lines>>

SpecResolve == InitResolve /\ [][Resolve]_vars

----------------------------------------------------------------------------
(* The materializer applied to every input within the bounds *)

InitPrepare ==
    /\ args \in [method : Methods, url : {PrepUrl}, params : PrepParamTables,
                 headers : HeaderTables, body_type : BodyTypes,
                 json_body : JsonTexts, form_params : FormTables,
                 file_key : FileKeys, uploaded_file : UploadedFiles]
    /\ pc = "call"
    /\ ret = <<>>
    /\ Idle

Prepare ==
    /\ pc = "call"
    /\ ret' = prepare_request_args(args.method, args.url, args.params,
                                   args.headers, args.body_type, args.json_body,
                                   args.form_params, args.file_key,
                                   args.uploaded_file)
    /\ pc' = "done"
    /\ UNCHANGED <<args, queue, check, loc, calls, fh, lines>>

SpecPrepare == InitPrepare /\ [][Prepare]_vars

----------------------------------------------------------------------------
(* Properties of process_path_variables, under SpecResolve *)

PlaceholderNames(url) ==
    LET found == FindAll(url) IN {found[i] : i \in 1..Len(found)}

(* usable in the sense of the data model: key and value non-empty after    *)
(* trimming                                                                *)
Usable(row) == strip(row[1]) # <<>> /\ strip(row[2]) # <<>>

(* the names among `names` for which a usable row supplied a value *)
SuppliedNames(names, params) ==
    {n \in names :
        \E i \in 1..Len(params) : Usable(params[i]) /\ strip(params[i][1]) = n}

(* the rows passing the code's own test (non-empty before trimming) that   *)
(* are keyed by one of `names`, and their names: a superset of             *)
(* SuppliedNames                                                           *)
DivertedRows(names, params) ==
    {i \in 1..Len(params) :
        /\ params[i][1] # <<>> /\ params[i][2] # <<>>
        /\ strip(params[i][1]) \in names}
DivertedNames(names, params) ==
    {strip(params[i][1]) : i \in DivertedRows(names, params)}

OccursAt(n, s, i) ==
    StartsWith(s, i, <<"{">> \o n \o <<"}">>) \/ StartsWith(s, i, <<":">> \o n)
Occurs(n, s) == \E i \in 1..Len(s) : OccursAt(n, s, i)
Contains(s, t) == \E i \in 1..(Len(s) + 1) : StartsWith(s, i, t)

RemainingKeysClean(names) ==
    \A j \in 1..Len(ret.new_params) : ret.new_params[j][1] \notin names

(* no substituted value brings a "{", a ":" or a backslash escape of its   *)
(* own                                                                     *)
ValuesPlain(names, params) ==
    \A i \in DivertedRows(names, params) :
        \A c \in {"{", ":", WholeMatch, NoSuchGroup} :
            ~InSeq(c, strip(params[i][2]))

(* no placeholder of a resolved name directly follows a "{", a ":" or a    *)
(* word character in the template                                          *)
PlaceholdersDelimited(resolved, url) ==
    \A n \in resolved : \A i \in 2..Len(url) :
        OccursAt(n, url, i) => url[i - 1] \notin ({"{", ":"} \cup WordChars)

(* C1, as claimed: in the result of process_path_variables (a) no          *)
(* remaining row is keyed by a placeholder name that a usable row supplied *)
(* and (b) the resolved URL holds no {name} and no :name of any such name. *)
(* A call that raises is not held against the claim.                       *)
C1_ResolvedEverywhere ==
    (pc = "done" /\ ret.raised = "none") =>
        LET supplied == SuppliedNames(PlaceholderNames(args.url), args.params)
        IN /\ RemainingKeysClean(supplied)
           /\ \A n \in supplied : ~Occurs(n, ret.url)

(* C1, the part the code keeps: whenever a result is returned, (a) holds   *)
(* for every name a row with non-empty key and value is keyed by; and      *)
(* whenever no substituted value contains "{", ":" or a backslash, a       *)
(* result is returned, in which (b) holds for those names provided no      *)
(* placeholder of a resolved name directly follows "{", ":" or a word      *)
(* character in the template.                                              *)
C1_ResolvedWhenPlain ==
    pc = "done" =>
        LET names == PlaceholderNames(args.url)
            resolved == DivertedNames(names, args.params)
        IN /\ ret.raised = "none" => RemainingKeysClean(resolved)
           /\ ValuesPlain(names, args.params) =>
                  /\ ret.raised = "none"
                  /\ PlaceholdersDelimited(resolved, args.url)
                         => \A n \in resolved : ~Occurs(n, ret.url)

C1_Witness ==
    /\ pc = "done"
    /\ args.url = <<"{", "a", "}", ":", "b">>
    /\ args.params = <<<<<<"a">>, <<"b">>>>, <<<<"b">>, <<"a">>>>>>
    /\ ValuesPlain(PlaceholderNames(args.url), args.params)
    /\ PlaceholdersDelimited({<<"a">>, <<"b">>}, args.url)
    /\ ret.raised = "none"
    /\ ret.url = <<"b", "a">>

(* C10, as claimed: every placeholder of the template whose name no row    *)
(* supplied stands in the resolved URL character for character, whatever   *)
(* else was substituted.                                                   *)
C10_UnresolvedUntouched ==
    (pc = "done" /\ ret.raised = "none") =>
        LET found == Scan(args.url, 1)
            resolved == DivertedNames(PlaceholderNames(args.url), args.params)
        IN \A i \in 1..Len(found) :
               found[i].name \notin resolved => Contains(ret.url, found[i].text)

----------------------------------------------------------------------------
(* Properties of prepare_request_args, under SpecPrepare *)

UsableRows(rows) == SelectSeq(rows, Usable)

NoBlankEntry(d) ==
    \A k \in DOMAIN d : strip(k) # <<>> /\ strip(d[k]) # <<>>

(* C2, as claimed: a row whose key or value is empty after trimming        *)
(* contributes nothing: no entry of the query map or of the header map has *)
(* an empty key or value, and the URL is resolved from the usable rows     *)
(* alone.                                                                  *)
C2_BlankRowsDropped ==
    (pc = "done" /\ ret.raised = "none") =>
        /\ NoBlankEntry(ret.params_dict)
        /\ NoBlankEntry(ret.headers_dict)
        /\ ret.resolved_url =
               process_path_variables(args.url, UsableRows(args.params)).url

BlankText(t) == strip(t) = <<>>

IsBodyMethod(m) == m \in {"POST", "post", "PUT", "put", "PATCH", "patch"}

PathResolves == process_path_variables(args.url, args.params).raised = "none"

LowerName(k) ==
    CASE k = <<"Content-Type">> -> <<"content-type">>
      [] k = <<"Authorization">> -> <<"authorization">>
      [] OTHER -> k

CallerContentTypeRows ==
    {i \in 1..Len(args.headers) :
        /\ args.headers[i][1]
        /\ Usable(<<args.headers[i][2], args.headers[i][3]>>)
        /\ LowerName(strip(args.headers[i][2])) = <<"content-type">>}

ContentTypeKeys(d) == {k \in DOMAIN d : LowerName(k) = <<"content-type">>}

LastOf(S) == CHOOSE i \in S : \A j \in S : j <= i

(* C4, as claimed: for POST/PUT/PATCH the default Content-Type is added    *)
(* only if no enabled caller header sets a Content-Type; otherwise the     *)
(* header map carries the caller's Content-Type and no other.              *)
C4_CallerContentTypeOnly ==
    (pc = "done" /\ ret.raised = "none" /\ IsBodyMethod(args.method)) =>
        IF CallerContentTypeRows # {}
        THEN /\ Cardinality(ContentTypeKeys(ret.headers_dict)) = 1
             /\ \A k \in ContentTypeKeys(ret.headers_dict) :
                    ret.headers_dict[k] =
                        strip(args.headers[LastOf(CallerContentTypeRows)][3])
        ELSE IF ret.json_data # None
        THEN /\ ContentTypeKeys(ret.headers_dict) = {ContentType}
             /\ ret.headers_dict[ContentType] = ApplicationJson
        ELSE IF ret.files = None
        THEN /\ ContentTypeKeys(ret.headers_dict) = {ContentType}
             /\ ret.headers_dict[ContentType] = FormUrlencoded
        ELSE ContentTypeKeys(ret.headers_dict) = {}

----------------------------------------------------------------------------
(* send_request, the four checks and the two runners *)

RequestTimeout == 15
ExpectedStatus == 200
DefaultIterations == 5

(* what a server may answer, and how long a timed call may take *)
Statuses == {200, 401}
Latencies == {1, 2}
ResponseBodies == { <<"{\"a\":1}">>, <<"not", " ", "json">> }

(* the labels of the test-type dropdown, in the order of tools_by_type,    *)
(* and a label that is none of them                                        *)
TestTypes == {"manual", "automated", "load", "security", "other"}

RunUrl == <<"/", ":", "a", "/", "/">>
RunParams == <<<<<<"a">>, <<"v">>>>, <<<<"q">>, <<"v">>>>>>
RunParamsBadTemplate == <<<<<<"a">>, <<NoSuchGroup>>>>, <<<<"q">>, <<"v">>>>>>
RunHeaderTables == { <<>>, <<HAuth>>, <<HAuthLower>>, <<HAuth, HCaller>> }
ReadableFile == [name |-> <<"tmp", "up.bin">>, content |-> FileContent, readable |-> TRUE]
MissingFile == [name |-> <<"tmp", "up.bin">>, content |-> FileContent, readable |-> FALSE]
Bodies ==
    { [body_type |-> "JSON", json_body |-> <<"{\"a\":1}">>, form_params |-> <<>>,
       file_key |-> <<>>, uploaded_file |-> None],
      [body_type |-> "JSON", json_body |-> <<"not", " ", "json">>, form_params |-> <<>>,
       file_key |-> <<>>, uploaded_file |-> None],
      [body_type |-> "Form Data", json_body |-> <<>>,
       form_params |-> <<<<<<"f">>, <<"1">>>>>>,
       file_key |-> <<>>, uploaded_file |-> None],
      [body_type |-> "Form Data", json_body |-> <<>>,
       form_params |-> <<<<<<"f">>, <<"1">>>>>>,
       file_key |-> <<"file">>, uploaded_file |-> Some(ReadableFile)],
      [body_type |-> "Form Data", json_body |-> <<>>, form_params |-> <<>>,
       file_key |-> <<"file">>, uploaded_file |-> Some(MissingFile)] }

Operations ==
    [op : {"send_request", "run_all_tests"}, test_type : {"manual"},
     iterations : {DefaultIterations}]
    \cup [op : {"run_selected_tests"}, test_type : TestTypes,
          iterations : {DefaultIterations}]
    \cup [op : {"test_performance"}, test_type : {"load"},
          iterations : 0..MaxIterations]

Materialized ==
    prepare_request_args(args.method, args.url, args.params, args.headers,
                         args.body.body_type, args.body.json_body,
                         args.body.form_params, args.body.file_key,
                         args.body.uploaded_file)

(* lines 69-91 of send_request repeat the statements of                    *)
(* prepare_request_args inside its try block                               *)
SendMaterialized == Materialized

(* the file object open(uploaded_file.name, 'rb') returns *)
Opened(d) ==
    IF d.files = None THEN NoFile
    ELSE [open |-> TRUE, content |-> args.body.uploaded_file[1].content, pos |-> 0]

(* requests reads each attached file object from its current position to   *)
(* its end when it encodes the multipart body                              *)
Attachment(files, h) ==
    IF files = None THEN None
    ELSE Some([key |-> files[1].key, fname |-> files[1].fname,
               sent |-> SubSeq(h.content, h.pos + 1, Len(h.content))])
AfterRead(files, h) ==
    IF files = None THEN h ELSE [h EXCEPT !.pos = Len(h.content)]

RECURSIVE rstrip_slash(_)
rstrip_slash(s) ==
    IF s # <<>> /\ s[Len(s)] = "/" THEN rstrip_slash(SubSeq(s, 1, Len(s) - 1)) ELSE s

(* headers_dict.copy(); pop("Authorization", None) *)
WithoutAuthorization(d) == [k \in DOMAIN d \ {<<"Authorization">>} |-> d[k]]

CatchesTransportOnly(exc) == exc \in {"ConnectionError", "Timeout"}

(* except Exception: every exception the body can raise is one *)
Catches(exc) ==
    exc \in {"re.error", "JSONDecodeError", "OSError", "ConnectionError",
             "Timeout", "ZeroDivisionError"}

RunAllOrderSwapped == <<"functional", "performance", "error_handling", "security">>

(* the list literal of run_all_tests, evaluated left to right *)
RunAllOrder == <<"functional", "error_handling", "performance", "security">>

(* the checks run_selected_tests calls for a test type *)
SelectedOrder(test_type) ==
    CASE test_type = "automated" -> <<"functional", "error_handling">>
      [] test_type = "load" -> <<"performance">>
      [] test_type = "security" -> <<"security">>
      [] OTHER -> <<>>

(* the number of HTTP calls the body of a check issues *)
CallsOf(c) ==
    CASE c = "performance" -> args.iterations
      [] c = "security" -> 2
      [] OTHER -> 1

(* "\n".join(lines) *)
RECURSIVE Join(_)
Join(ls) ==
    IF Len(ls) <= 1 THEN ls
    ELSE Join(SubSeq(ls, 1, Len(ls) - 1)) \o <<"\n", ls[Len(ls)]>>

Sum(t) == IF t = <<>> THEN 0 ELSE
    LET S[i \in 0..Len(t)] == IF i = 0 THEN 0 ELSE S[i - 1] + t[i] IN S[Len(t)]

(* the requests.request(...) call of a check, by the check and the number  *)
(* of calls it has made                                                    *)
CallOf(c, n, d, h) ==
    CASE c = "send_request" ->
           [by |-> c, method |-> args.method, url |-> d.resolved_url,
            params |-> d.params_dict, headers |-> d.headers_dict,
            json |-> d.json_data, data |-> d.data, files |-> Attachment(d.files, h),
            timeout |-> Some(RequestTimeout)]
      [] c = "functional" ->
           [by |-> c, method |-> args.method, url |-> d.resolved_url,
            params |-> d.params_dict, headers |-> d.headers_dict,
            json |-> d.json_data, data |-> d.data, files |-> Attachment(d.files, h),
            timeout |-> Some(RequestTimeout)]
      [] c = "error_handling" ->
           [by |-> c, method |-> "GET",
            url |-> rstrip_slash(d.resolved_url) \o <<"/", "nonexistent">>,
            params |-> d.params_dict, headers |-> d.headers_dict,
            json |-> None, data |-> None, files |-> None, timeout |-> None]
      [] c = "performance" ->
           [by |-> c, method |-> args.method, url |-> d.resolved_url,
            params |-> d.params_dict, headers |-> d.headers_dict,
            json |-> d.json_data, data |-> d.data, files |-> Attachment(d.files, h),
            timeout |-> None]
      [] c = "security" ->
           [by |-> c, method |-> args.method, url |-> d.resolved_url,
            params |-> d.params_dict,
            headers |-> IF n = 0 THEN d.headers_dict
                        ELSE WithoutAuthorization(d.headers_dict),
            json |-> d.json_data, data |-> d.data, files |-> Attachment(d.files, h),
            timeout |-> None]

ReadsFile(c) == c # "error_handling"

(* the verdict line a check returns *)
LineOf(c) ==
    CASE c = "functional" ->
           [check |-> c, method |-> args.method, url |-> args.url,
            status |-> loc.statuses[1],
            verdict |-> IF loc.statuses[1] = ExpectedStatus THEN "PASS" ELSE "FAIL"]
      [] c = "error_handling" ->
           [check |-> c, url |-> calls[Len(calls)].url, status |-> loc.statuses[1]]
      [] c = "performance" ->
           [check |-> c, sum |-> Sum(loc.times), count |-> Len(loc.times),
            iterations |-> args.iterations]
      [] c = "security" ->
           [check |-> c, status_no_auth |-> loc.statuses[2],
            status_with_auth |-> loc.statuses[1],
            verdict |-> IF loc.statuses[1] # loc.statuses[2]
                        THEN "expected" ELSE "check access control"]

Init ==
    /\ \E o \in Operations, m \in {"GET", "POST"}, h \in RunHeaderTables, b \in Bodies,
          p \in {RunParams, RunParamsBadTemplate} :
           args = [op |-> o.op, test_type |-> o.test_type, iterations |-> o.iterations,
                   method |-> m, url |-> RunUrl, params |-> p,
                   headers |-> h, body |-> b]
    /\ pc = "start"
    /\ ret = <<>>
    /\ Idle

(* an exception leaves the body of `check`: send_request catches it and    *)
(* returns the error object, a diagnostic check lets it propagate through  *)
(* the runner to the caller                                                *)
Raise(exc) ==
    IF check' = "send_request" /\ Catches(exc)
    THEN /\ pc' = "returned"
         /\ ret' = [kind |-> "error", error |-> "Request Error", details |-> exc]
    ELSE /\ pc' = "raised"
         /\ ret' = [kind |-> "exception", details |-> exc]

(* send_request up to and including its requests.request call *)
SendRequest ==
    /\ pc = "start" /\ args.op = "send_request"
    /\ check' = "send_request"
    /\ LET d == SendMaterialized IN
       IF d.raised # "none"
       THEN /\ Raise(d.raised)
            /\ UNCHANGED <<loc, calls, fh>>
       ELSE /\ loc' = [d |-> d, n |-> 0, statuses |-> <<>>, times |-> <<>>]
            /\ calls' = Append(calls, CallOf("send_request", 0, d, Opened(d)))
            /\ fh' = AfterRead(d.files, Opened(d))
            /\ pc' = "waiting"
            /\ UNCHANGED ret
    /\ UNCHANGED <<args, queue, lines>>

RunAllTests ==
    /\ pc = "start" /\ args.op = "run_all_tests"
    /\ queue' = RunAllOrder
    /\ pc' = "next"
    /\ UNCHANGED <<args, ret, check, loc, calls, fh, lines>>

RunSelectedTests ==
    /\ pc = "start" /\ args.op = "run_selected_tests"
    /\ IF args.test_type = "manual"
       THEN /\ ret' = [kind |-> "text",
                       text |-> <<"Manual testing: use your tool to send requests.">>]
            /\ pc' = "returned"
            /\ UNCHANGED queue
       ELSE IF SelectedOrder(args.test_type) = <<>>
       THEN /\ ret' = [kind |-> "text", text |-> <<"Unknown test type">>]
            /\ pc' = "returned"
            /\ UNCHANGED queue
       ELSE /\ queue' = SelectedOrder(args.test_type)
            /\ pc' = "next"
            /\ UNCHANGED ret
    /\ UNCHANGED <<args, check, loc, calls, fh, lines>>

(* a direct call of test_performance with its iterations argument *)
TestPerformance ==
    /\ pc = "start" /\ args.op = "test_performance"
    /\ queue' = <<"performance">>
    /\ pc' = "next"
    /\ UNCHANGED <<args, ret, check, loc, calls, fh, lines>>

(* the next check is called and materializes its request *)
Materialize ==
    /\ pc = "next" /\ queue # <<>>
    /\ check' = Head(queue)
    /\ queue' = Tail(queue)
    /\ LET d == Materialized IN
       IF d.raised # "none"
       THEN /\ Raise(d.raised)
            /\ UNCHANGED <<loc, fh>>
       ELSE /\ loc' = [d |-> d, n |-> 0, statuses |-> <<>>, times |-> <<>>]
            /\ fh' = Opened(d)
            /\ pc' = "body"
            /\ UNCHANGED ret
    /\ UNCHANGED <<args, calls, lines>>

(* the running check issues its next requests.request call *)
IssueCall ==
    /\ pc = "body" /\ loc.n < CallsOf(check)
    /\ calls' = Append(calls, CallOf(check, loc.n, loc.d, fh))
    /\ fh' = IF ReadsFile(check) THEN AfterRead(loc.d.files, fh) ELSE fh
    /\ pc' = "waiting"
    /\ UNCHANGED <<args, ret, queue, check, loc, lines>>

(* the server answers the call in flight; a check keeps the status code if *)
(* it reads it, and test_performance the elapsed time                      *)
Respond ==
    /\ pc = "waiting"
    /\ \E st \in Statuses, el \in Latencies, body \in ResponseBodies :
        IF check = "send_request"
        THEN /\ ret' = [kind |-> "result",
                        request |-> [method |-> args.method, url |-> args.url,
                                     resolved_url |-> calls[Len(calls)].url,
                                     query_params |-> loc.d.params_dict,
                                     headers |-> loc.d.headers_dict,
                                     body_type |-> args.body.body_type],
                        response |-> [status |-> st,
                                      body |-> IF json_loads(body).ok
                                               THEN <<json_loads(body).value>>
                                               ELSE body]]
             /\ pc' = "returned"
             /\ UNCHANGED loc
        ELSE /\ loc' = [loc EXCEPT !.n = @ + 1,
                                   !.statuses = IF check = "performance"
                                                THEN @ ELSE Append(@, st),
                                   !.times = IF check = "performance"
                                             THEN Append(@, el) ELSE @]
             /\ pc' = "body"
             /\ UNCHANGED ret
    /\ UNCHANGED <<args, queue, check, calls, fh, lines>>

(* the call in flight fails: connection refused, DNS, malformed response *)
TransportError ==
    /\ pc = "waiting"
    /\ UNCHANGED check
    /\ Raise("ConnectionError")
    /\ UNCHANGED <<args, queue, loc, calls, fh, lines>>

(* the timeout of the call in flight, when it was given one, elapses *)
Timeout ==
    /\ pc = "waiting"
    /\ calls[Len(calls)].timeout # None
    /\ UNCHANGED check
    /\ Raise("Timeout")
    /\ UNCHANGED <<args, queue, loc, calls, fh, lines>>

(* the running check has made its calls and returns its verdict line *)
Verdict ==
    /\ pc = "body" /\ loc.n >= CallsOf(check)
    /\ IF check = "performance" /\ Len(loc.times) = 0
       THEN /\ UNCHANGED check
            /\ Raise("ZeroDivisionError")
            /\ UNCHANGED lines
       ELSE /\ lines' = Append(lines, LineOf(check))
            /\ check' = "none"
            /\ pc' = "next"
            /\ UNCHANGED ret
    /\ UNCHANGED <<args, queue, loc, calls, fh>>

(* the runner joins the lines of its checks and returns *)
Return ==
    /\ pc = "next" /\ queue = <<>>
    /\ ret' = [kind |-> "text", text |-> Join(lines)]
    /\ pc' = "returned"
    /\ UNCHANGED <<args, queue, check, loc, calls, fh, lines>>

Next ==
    \/ SendRequest
    \/ RunAllTests
    \/ RunSelectedTests
    \/ TestPerformance
    \/ Materialize
    \/ IssueCall
    \/ Respond
    \/ TransportError
    \/ Timeout
    \/ Verdict
    \/ Return

Spec == Init /\ [][Next]_vars

----------------------------------------------------------------------------
(* Properties of send_request, the checks and the runners, under Spec *)

(* C5: send_request never lets an exception reach its caller: when         *)
(* materializing fails it returns the error object without issuing a call, *)
(* when the one call it issues fails or times out it returns the error     *)
(* object, and otherwise it returns the request/response object.           *)
C5_SendRequestReportsAsData ==
    args.op = "send_request" =>
        /\ pc # "raised"
        /\ pc = "returned" =>
            \/ /\ ret.kind = "error" /\ ret.error = "Request Error"
               /\ \/ /\ SendMaterialized.raised # "none"
                     /\ ret.details = SendMaterialized.raised
                     /\ calls = <<>>
                  \/ /\ SendMaterialized.raised = "none"
                     /\ ret.details \in {"ConnectionError", "Timeout"}
                     /\ Len(calls) = 1
            \/ /\ ret.kind = "result"
               /\ SendMaterialized.raised = "none"
               /\ Len(calls) = 1
               /\ ret.response.status \in Statuses

C5_Witness ==
    /\ args.op = "send_request"
    /\ pc = "returned"
    /\ ret.kind = "error"
    /\ ret.details = "JSONDecodeError"

IsSecurityCall(c) == c.by = "security"

(* C6, as claimed: test_security issues two calls; the second carries no   *)
(* Authorization header and is otherwise the first call: same method, URL, *)
(* query params, other headers and body, attached file content included;   *)
(* the header map of the first call stays as materialized.                 *)
C6_SecondCallIsFirstWithoutAuthorization ==
    LET sec == SelectSeq(calls, IsSecurityCall) IN
    Len(sec) = 2 =>
        /\ \A k \in DOMAIN sec[2].headers : LowerName(k) # <<"authorization">>
        /\ \A k \in DOMAIN sec[1].headers :
               LowerName(k) # <<"authorization">>
                   => k \in DOMAIN sec[2].headers
                      /\ sec[2].headers[k] = sec[1].headers[k]
        /\ [sec[2] EXCEPT !.headers = sec[1].headers] = sec[1]
        /\ loc.d.headers_dict = sec[1].headers

(* the calls a sequence of checks issues, as the checks that issue them *)
RECURSIVE CallsBy(_, _)
CallsBy(order, iterations) ==
    IF order = <<>> THEN <<>>
    ELSE LET c == Head(order)
             k == IF c = "performance" THEN iterations
                  ELSE IF c = "security" THEN 2 ELSE 1
         IN [i \in 1..k |-> c] \o CallsBy(Tail(order), iterations)

IsPrefix(s, t) == Len(s) <= Len(t) /\ SubSeq(t, 1, Len(s)) = s

RunnerOrder ==
    IF args.op = "run_all_tests"
    THEN <<"functional", "error_handling", "performance", "security">>
    ELSE CASE args.test_type = "automated" -> <<"functional", "error_handling">>
           [] args.test_type = "load" -> <<"performance">>
           [] args.test_type = "security" -> <<"security">>
           [] OTHER -> <<>>

(* C7: a runner issues the calls of its checks in the fixed order and no   *)
(* other call: at every moment the calls issued are a prefix of the calls  *)
(* of functional, error handling, performance, security (run_all_tests) or *)
(* of the checks of the category (run_selected_tests); a check starts only *)
(* when the line of the one before it has been returned; a runner that     *)
(* returns has issued exactly those calls and returns their lines joined   *)
(* by newlines in that order; manual and unrecognized categories return a  *)
(* static message without any call.  (A check that raises ends the runner  *)
(* at that point, with the calls of a prefix.)                             *)
C7_FixedOrder ==
    args.op \in {"run_all_tests", "run_selected_tests"} =>
        LET order == RunnerOrder
            expected == CallsBy(order, DefaultIterations)
            issued == [i \in 1..Len(calls) |-> calls[i].by]
        IN /\ IsPrefix(issued, expected)
           /\ Len(lines) <= Len(order)
           /\ \A i \in 1..Len(lines) : lines[i].check = order[i]
           /\ check # "none" => /\ Len(lines) < Len(order)
                                /\ check = order[Len(lines) + 1]
           /\ check = "none" =>
                  issued = CallsBy(SubSeq(order, 1, Len(lines)), DefaultIterations)
           /\ pc = "returned" =>
                  IF order = <<>>
                  THEN /\ calls = <<>>
                       /\ ret.text = IF args.test_type = "manual"
                                     THEN <<"Manual testing: use your tool to send requests.">>
                                     ELSE <<"Unknown test type">>
                  ELSE /\ issued = expected
                       /\ Len(ret.text) = 2 * Len(order) - 1
                       /\ \A i \in 1..Len(order) : ret.text[2 * i - 1].check = order[i]
                       /\ \A i \in 1..(Len(order) - 1) : ret.text[2 * i] = "\n"

C7_Witness ==
    /\ args.op = "run_all_tests"
    /\ pc = "returned"
    /\ Len(calls) = 9
    /\ Len(ret.text) = 7

(* C8, as claimed, for N >= 1: test_performance issues exactly N calls,    *)
(* each the original request (method, URL, body with its attached file),   *)
(* and returns a line reporting N and the sum of the N recorded times over *)
(* N.                                                                      *)
C8_NCallsOfTheOriginalRequest ==
    (args.op = "test_performance" /\ args.iterations >= 1 /\ pc = "returned") =>
        /\ Len(calls) = args.iterations
        /\ \A i \in 1..Len(calls) : calls[i] = calls[1]
        /\ Len(loc.times) = args.iterations
        /\ lines[1].count = args.iterations
        /\ lines[1].sum = Sum(loc.times)

(* C9, as claimed: every call the core issues carries the fixed timeout,   *)
(* so a call whose server stays silent can always end by timing out.       *)
C9_EveryCallTimesOut ==
    /\ \A i \in 1..Len(calls) : calls[i].timeout = Some(RequestTimeout)
    /\ pc = "waiting" => ENABLED Timeout

====
